---------------------------- MODULE Spec2Model ----------------------------
(***************************************************************************)
(* A model of src/src/graph.rs of Simple_Graph: Serie (validation and      *)
(* bounds of a point source) and Chart (construction, axes and minor grid, *)
(* coordinate mapping, pixel painting).                                    *)
(*                                                                         *)
(* Three specifications share the variables:                               *)
(*   SerieSpec  Serie::new applied to bounded point sources;               *)
(*   MapSpec    Chart::serie_to_points applied to a chart holding any      *)
(*              calibration with max_value > min_value;                    *)
(*   Spec       the life of one Chart: Chart::new, then create_bmp_vec     *)
(*              once or several times.                                     *)
(*                                                                         *)
(* The modules axis.rs (Axis), line.rs (line::extrapolate) and the BitMap  *)
(* type are used by graph.rs and are not part of the sources at hand; the  *)
(* definitions that stand for them follow the design document and say so.  *)
(*                                                                         *)
(* f64 values are modelled as records: a finite number (an integer here),  *)
(* an infinity, or NaN, with the IEEE comparisons the code uses.           *)
(* Arithmetic on f64 (serie_to_points, get_minor_net) is modelled exactly, *)
(* on finite values, as rounded integer division.                          *)
(***************************************************************************)
EXTENDS Integers, Sequences, FiniteSets, TLC

VARIABLES
    serieArg,   \* the arguments of the last Serie::new call
    serieRes,   \* what that call returned
    chartArg,   \* the arguments of the last Chart::new call
    chart,      \* the Chart, or NoChart
    result,     \* what the last Chart operation returned
    last        \* the last create_bmp_vec call: what it read and painted

vars == <<serieArg, serieRes, chartArg, chart, result, last>>

-----------------------------------------------------------------------------
(* Layout constants, graph.rs lines 7-14.                                   *)

W_ARROW == 4
W_NUMBER == 4
H_NUMBER == 5
W_BORDER == 1
H_ARROW_HALF == 3

LEFT_SHIFT == W_BORDER + W_NUMBER + H_NUMBER
RIGHT_SHIFT == W_ARROW

-----------------------------------------------------------------------------
(* Bounds of the model.                                                     *)

\* finite coordinates of SerieSpec's points are 0..MaxCoord
MaxCoord == 1
\* SerieSpec's point sources yield at most MaxLen points
MaxLen == 3

-----------------------------------------------------------------------------
(* f64.                                                                     *)

Num(n) == [k |-> "num", v |-> n]
NaN == [k |-> "nan", v |-> 0]
INFINITY == [k |-> "inf", v |-> 1]
NEG_INFINITY == [k |-> "inf", v |-> -1]

\* a > b on f64: false as soon as one side is NaN
FGt(a, b) ==
    CASE a.k = "nan" \/ b.k = "nan" -> FALSE
      [] a.k = "inf" /\ b.k = "inf" -> a.v > b.v
      [] a.k = "inf" -> a.v > 0
      [] b.k = "inf" -> b.v < 0
      [] OTHER -> a.v > b.v

\* a < b on f64
FLt(a, b) == FGt(b, a)

\* a != b on f64: true as soon as one side is NaN
FNe(a, b) == a.k = "nan" \/ b.k = "nan" \/ a # b

\* a <= b on f64
FLe(a, b) == FLt(a, b) \/ ~FNe(a, b)

\* p != q on (f64, f64), the PartialEq of the tuple
PointNe(p, q) == FNe(p[1], q[1]) \/ FNe(p[2], q[2])

\* Point::from((f64, f64))
PointFrom(t) == [x |-> t[1], y |-> t[2]]

-----------------------------------------------------------------------------
(* Serie.                                                                   *)

RECURSIVE MaxMinScan(_, _)
\* the loop of calculate_max_min over the points left, acc the four bounds
MaxMinScan(iter, acc) ==
    IF iter = <<>> THEN acc
    ELSE LET p == PointFrom(Head(iter))
             a1 == IF FGt(p.x, acc.max_x) THEN [acc EXCEPT !.max_x = p.x] ELSE acc
             a2 == IF FLt(p.x, a1.min_x) THEN [a1 EXCEPT !.min_x = p.x] ELSE a1
             a3 == IF FGt(p.y, a2.max_y) THEN [a2 EXCEPT !.max_y = p.y] ELSE a2
             a4 == IF FLt(p.y, a3.min_y) THEN [a3 EXCEPT !.min_y = p.y] ELSE a3
         IN MaxMinScan(Tail(iter), a4)

\* calculate_max_min with the four bounds starting at 0.0
calculate_max_min_from_zero(iter) ==
    MaxMinScan(iter, [max_x |-> Num(0), min_x |-> Num(0),
                      max_y |-> Num(0), min_y |-> Num(0)])

calculate_max_min(iter) ==
    MaxMinScan(iter, [max_x |-> NEG_INFINITY, min_x |-> INFINITY,
                      max_y |-> NEG_INFINITY, min_y |-> INFINITY])

\* the uniqueness check looking at the second point only
AnyDiffers_second_only(iter) ==
    \E i \in 2..2 : PointNe(iter[i], iter[1])

\* iter.clone().skip(1).any(|p| p != first)
AnyDiffers(iter) ==
    \E i \in 2..Len(iter) : PointNe(iter[i], iter[1])

\* Serie::new asking for nth(0) instead of nth(1)
SerieNew_nth0(iter, color) ==
    IF Len(iter) < 1 THEN [status |-> "NotEnoughPoints"]
    ELSE IF ~AnyDiffers(iter) THEN [status |-> "NonUniquePoints"]
    ELSE LET b == calculate_max_min(iter)
         IN [status |-> "Ok", iter |-> iter, color |-> color,
             max_x |-> b.max_x, max_y |-> b.max_y,
             min_x |-> b.min_x, min_y |-> b.min_y]

\* Serie::new(iter, color)
SerieNew(iter, color) ==
    IF Len(iter) < 2 THEN [status |-> "NotEnoughPoints"]
    ELSE IF ~AnyDiffers(iter) THEN [status |-> "NonUniquePoints"]
    ELSE LET b == calculate_max_min(iter)
         IN [status |-> "Ok", iter |-> iter, color |-> color,
             max_x |-> b.max_x, max_y |-> b.max_y,
             min_x |-> b.min_x, min_y |-> b.min_y]


-----------------------------------------------------------------------------
(* f64 arithmetic on finite values.                                         *)

\* (n / d).round() for d > 0: the nearest integer, halves away from zero
RoundDiv(n, d) ==
    IF n >= 0 THEN (2 * n + d) \div (2 * d)
    ELSE -((2 * (-n) + d) \div (2 * d))

\* `as usize` of a rounded f64 (a saturating cast): a negative value becomes 0
AsUsize(v) == IF v < 0 THEN 0 ELSE v

-----------------------------------------------------------------------------
(* BitMap, the palette and image collaborator (not among the sources):      *)
(* add_color is a lookup-or-insert that returns a stable index, add_pixels  *)
(* copies the index buffer unchanged.                                       *)

RECURSIVE IndexOf(_, _)
\* the 0-based position of color in the palette colors (which holds it)
IndexOf(colors, color) ==
    IF Head(colors) = color THEN 0 ELSE 1 + IndexOf(Tail(colors), color)

Holds(colors, color) == \E i \in 1..Len(colors) : colors[i] = color

\* BitMap::new(width, height)
BitMapNew(width, height) ==
    [width |-> width, height |-> height, colors |-> <<>>, pixels |-> <<>>]

\* the BitMap after picture.add_color(color)
add_color(picture, color) ==
    IF Holds(picture.colors, color) THEN picture
    ELSE [picture EXCEPT !.colors = Append(@, color)]

\* the index picture.add_color(color) returns
color_number(picture, color) == IndexOf(add_color(picture, color).colors, color)

\* the BitMap after picture.add_pixels(&pixs)
add_pixels(picture, pixs) == [picture EXCEPT !.pixels = pixs]

-----------------------------------------------------------------------------
(* Axis (axis.rs, not among the sources), after sections 3 and 4.1 of the   *)
(* design document: a calibration {min_value, max_value, tick count k_i,    *)
(* pixels per tick c_i}.  The rounding heuristic is left open there, so     *)
(* calculate_axis is the set of calibrations it allows here: the tick       *)
(* interval is a whole number of data units, the tick count k is any of     *)
(* 1..MaxTicks that the range admits, the calibrated range starts at        *)
(* min_value and spans the k ticks, and c_i is the usable extent divided by *)
(* the tick count (kept as the fraction n/d).                               *)

\* tick counts are 1..MaxTicks
MaxTicks == 2

\* the least whole number of units with k of them covering range
TickInterval(range, k) == (range + k - 1) \div k

\* Axis::calculate_axis(max_value, min_value, total_size), for max > min
calculate_axis(max_value, min_value, total_size) ==
    LET range == max_value.v - min_value.v
    IN { [min_value |-> min_value.v,
          max_value |-> min_value.v + k * TickInterval(range, k),
          k_i |-> k, c_i |-> [n |-> total_size - LEFT_SHIFT - RIGHT_SHIFT, d |-> k],
          size |-> total_size, horizontal |-> TRUE] :
            k \in { k \in 1..MaxTicks : k <= range } }

\* Axis::rotate
rotate(axis) == [axis EXCEPT !.horizontal = ~@]

\* Axis::create_points: the solid axis line from the origin to the end of
\* the canvas and its arrow head, H_ARROW_HALF pixels to each side
create_points(axis) ==
    LET along == { [x |-> j, y |-> LEFT_SHIFT] : j \in LEFT_SHIFT..(axis.size - 1) }
        arrow == { [x |-> axis.size - 1 - d, y |-> LEFT_SHIFT + e] :
                     <<d, e>> \in { <<d, e>> \in (1..H_ARROW_HALF) \X ((-H_ARROW_HALF)..H_ARROW_HALF) :
                                       e = d \/ e = -d } }
        horiz == along \cup arrow
    IN IF axis.horizontal THEN horiz
       ELSE { [x |-> p.y, y |-> p.x] : p \in horiz }

\* round(c_i * i) as usize
TickPixel(axis, i) == AsUsize(RoundDiv(axis.c_i.n * i, axis.c_i.d))

None == [some |-> FALSE, val |-> 0]
Some(a) == [some |-> TRUE, val |-> a]

-----------------------------------------------------------------------------
(* line::extrapolate (line.rs, not among the sources), after section 4.5:   *)
(* every segment is stepped one pixel at a time along the axis of larger    *)
(* delta, the other coordinate being the proportional rounded position.     *)
(* The pixels are kept as a set: they are all painted with one color.       *)

Abs(v) == IF v < 0 THEN -v ELSE v
Sign(v) == IF v < 0 THEN -1 ELSE IF v > 0 THEN 1 ELSE 0

Segment(a, b) ==
    LET dx == b.x - a.x
        dy == b.y - a.y
    IN IF dx = 0 /\ dy = 0 THEN {a}
       ELSE IF Abs(dx) >= Abs(dy)
            THEN { [x |-> a.x + Sign(dx) * t, y |-> a.y + RoundDiv(dy * t, Abs(dx))] :
                     t \in 0..Abs(dx) }
            ELSE { [x |-> a.x + RoundDiv(dx * t, Abs(dy)), y |-> a.y + Sign(dy) * t] :
                     t \in 0..Abs(dy) }

extrapolate(points) ==
    UNION { Segment(points[i], points[i + 1]) : i \in 1..(Len(points) - 1) }

-----------------------------------------------------------------------------
(* Chart.                                                                   *)

NoChart == [width |-> 0]

\* vec![color; size]
Filled(size, color) == [i \in 1..size |-> color]

\* Chart::new rejecting a canvas only when both dimensions are too small
ChartNew_both(width, height, background_color, axis_color) ==
    IF width < (2 * H_NUMBER + 2 * W_NUMBER + W_ARROW + 2 * W_BORDER) /\
       height < (2 * H_NUMBER + 2 * W_NUMBER + W_ARROW + 2 * W_BORDER)
    THEN [status |-> "NotEnoughSpace", chart |-> NoChart]
    ELSE LET picture == add_color(add_color(BitMapNew(width, height), background_color),
                                  axis_color)
             background_color_number == IndexOf(picture.colors, background_color)
         IN [status |-> "Ok",
             chart |-> [width |-> width, height |-> height,
                        background_color |-> background_color_number,
                        axis_color |-> IndexOf(picture.colors, axis_color),
                        pixs |-> Filled(width * height, background_color_number),
                        picture |-> picture,
                        axis_x |-> None, axis_y |-> None]]

\* Chart::new(width, height, background_color, axis_color)
ChartNew(width, height, background_color, axis_color) ==
    IF width < (2 * H_NUMBER + 2 * W_NUMBER + W_ARROW + 2 * W_BORDER) \/
       height < (2 * H_NUMBER + 2 * W_NUMBER + W_ARROW + 2 * W_BORDER)
    THEN [status |-> "NotEnoughSpace", chart |-> NoChart]
    ELSE LET picture == BitMapNew(width, height)
             background_color_number == color_number(picture, background_color)
             picture1 == add_color(picture, background_color)
             axis_color_number == color_number(picture1, axis_color)
             picture2 == add_color(picture1, axis_color)
             size == width * height
         IN [status |-> "Ok",
             chart |-> [width |-> width, height |-> height,
                        background_color |-> background_color_number,
                        axis_color |-> axis_color_number,
                        pixs |-> Filled(size, background_color_number),
                        picture |-> picture2,
                        axis_x |-> None, axis_y |-> None]]

\* the index of the buffer draw_pixels writes for p (the buffer is 1-based here)
PixIndex(c, p) == p.y * c.width + p.x + 1

\* self.pixs[i] = color would panic: i is out of the buffer
OutOfBuffer(c, points) == \E p \in points : PixIndex(c, p) > Len(c.pixs)

\* Chart::draw_pixels(points, color), when no index is out of the buffer
draw_pixels(c, points, color) ==
    LET idx == { PixIndex(c, p) : p \in points }
    IN [c EXCEPT !.pixs = [i \in 1..Len(c.pixs) |-> IF i \in idx THEN color ELSE c.pixs[i]]]

\* the first loop of get_minor_net: the dashed vertical lines of axis_x's ticks
MinorNetX(c, axis_x) ==
    { [x |-> LEFT_SHIFT + TickPixel(axis_x, i), y |-> j] :
        i \in 0..(axis_x.k_i - 1),
        j \in { j \in LEFT_SHIFT..(c.height - H_ARROW_HALF - 1) : j % 2 # 0 } }

\* the second loop of get_minor_net: the dashed horizontal lines of axis_y's ticks
MinorNetY(c, axis_y) ==
    { [x |-> j, y |-> LEFT_SHIFT + TickPixel(axis_y, i)] :
        i \in 0..(axis_y.k_i - 1),
        j \in { j \in LEFT_SHIFT..(c.width - H_ARROW_HALF - 1) : j % 2 # 0 } }

\* Chart::get_minor_net(axis_x, axis_y)
get_minor_net(c, axis_x, axis_y) == MinorNetX(c, axis_x) \cup MinorNetY(c, axis_y)

\* the calibrations draw_axes may get for serie: <<axis_x, axis_y>>
Calibrations(c, serie) ==
    calculate_axis(serie.max_x, serie.min_x, c.width) \X
    { rotate(a) : a \in calculate_axis(serie.max_y, serie.min_y, c.height) }

\* every pixel draw_axes paints
AxesPoints(c, axis_x, axis_y) ==
    create_points(axis_x) \cup create_points(axis_y) \cup get_minor_net(c, axis_x, axis_y)

\* draw_axes keeping a calibration the Chart already holds
draw_axes_keep(c, axis_x, axis_y) ==
    LET c1 == draw_pixels(c, create_points(axis_x), c.axis_color)
        c2 == draw_pixels(c1, create_points(axis_y), c.axis_color)
        c3 == draw_pixels(c2, get_minor_net(c, axis_x, axis_y), c.axis_color)
    IN [c3 EXCEPT !.axis_x = IF @.some THEN @ ELSE Some(axis_x),
                  !.axis_y = IF @.some THEN @ ELSE Some(axis_y)]

\* Chart::draw_axes(serie), axis_x and axis_y being what calculate_axis and
\* rotate returned
draw_axes(c, axis_x, axis_y) ==
    LET minor_net == get_minor_net(c, axis_x, axis_y)
        axis_color == c.axis_color
        c1 == draw_pixels(c, create_points(axis_x), axis_color)
        c2 == draw_pixels(c1, create_points(axis_y), axis_color)
        c3 == draw_pixels(c2, minor_net, axis_color)
    IN [c3 EXCEPT !.axis_x = Some(axis_x), !.axis_y = Some(axis_y)]

\* ((v - axis.min_value) / resolution).round() as usize, the resolution being
\* (axis.max_value - axis.min_value) / available
RoundedIndex(axis, available, v) ==
    AsUsize(RoundDiv((v.v - axis.min_value) * available, axis.max_value - axis.min_value))

\* the closure of serie_to_points taking the whole width and height for the
\* resolutions
ToDisplayPoint_whole_canvas(c, axis_x, axis_y, t) ==
    LET p == PointFrom(t)
        id_x0 == RoundedIndex(axis_x, c.width, p.x)
        id_y0 == RoundedIndex(axis_y, c.height, p.y)
        id_x == IF id_x0 = c.width THEN id_x0 - 1 ELSE id_x0
        id_y == IF id_y0 = c.height THEN id_y0 - 1 ELSE id_y0
    IN [x |-> id_x + LEFT_SHIFT, y |-> id_y + LEFT_SHIFT]

\* the closure of serie_to_points: one data point to its DisplayPoint
ToDisplayPoint(c, axis_x, axis_y, t) ==
    LET width_available == c.width - LEFT_SHIFT - RIGHT_SHIFT
        height_available == c.height - LEFT_SHIFT - RIGHT_SHIFT
        p == PointFrom(t)
        id_x0 == RoundedIndex(axis_x, width_available, p.x)
        id_y0 == RoundedIndex(axis_y, height_available, p.y)
        id_x == IF id_x0 = c.width THEN id_x0 - 1 ELSE id_x0
        id_y == IF id_y0 = c.height THEN id_y0 - 1 ELSE id_y0
    IN [x |-> id_x + LEFT_SHIFT, y |-> id_y + LEFT_SHIFT]

\* Chart::serie_to_points(serie), when axis_x and axis_y are set
serie_to_points(c, serie) ==
    LET axis_x == c.axis_x.val
        axis_y == c.axis_y.val
    IN [i \in 1..Len(serie.iter) |-> ToDisplayPoint(c, axis_x, axis_y, serie.iter[i])]

\* create_bmp_vec painting the line before the axes and the grid
create_bmp_vec_line_first(c, serie, axis_x, axis_y) ==
    LET c0 == [c EXCEPT !.axis_x = Some(axis_x), !.axis_y = Some(axis_y)]
        function == serie_to_points(c0, serie)
        func_points == extrapolate(function)
        points_color_number == color_number(c.picture, serie.color)
        c1 == [c0 EXCEPT !.picture = add_color(@, serie.color)]
        c2 == draw_pixels(c1, func_points, points_color_number)
        c3 == draw_axes(c2, axis_x, axis_y)
    IN [panics |-> FALSE,
        chart |-> [c3 EXCEPT !.picture = add_pixels(@, c3.pixs)],
        read_x |-> c0.axis_x, read_y |-> c0.axis_y,
        function |-> function, func_points |-> func_points]

\* Chart::create_bmp_vec(serie): whether it panics (an unset axis is
\* unwrapped, or a pixel is out of the buffer) and, when it does not, the Chart
\* it leaves, with what serie_to_points unwrapped (read_x, read_y) and returned
\* (function) and the pixels of the line (func_points)
create_bmp_vec(c, serie, axis_x, axis_y) ==
    LET c1 == draw_axes(c, axis_x, axis_y)
    IN IF OutOfBuffer(c, AxesPoints(c, axis_x, axis_y)) \/ ~c1.axis_x.some \/ ~c1.axis_y.some
       THEN [panics |-> TRUE]
       ELSE LET function == serie_to_points(c1, serie)
                func_points == extrapolate(function)
                points_color_number == color_number(c1.picture, serie.color)
                c2 == [c1 EXCEPT !.picture = add_color(@, serie.color)]
                c3 == draw_pixels(c2, func_points, points_color_number)
            IN IF OutOfBuffer(c, func_points)
               THEN [panics |-> TRUE]
               ELSE [panics |-> FALSE,
                     chart |-> [c3 EXCEPT !.picture = add_pixels(@, c3.pixs)],
                     read_x |-> c1.axis_x, read_y |-> c1.axis_y,
                     function |-> function, func_points |-> func_points]

-----------------------------------------------------------------------------
(* Inputs.                                                                  *)

\* canvas widths and heights tried are 0..MaxSize
MaxSize == 25

Colors == {"#ffffff", "#000000"}
SerieColors == {"#0000ff", "#000000"}

\* SerieSpec: the f64 values of the points, and the points; the point sources
\* are the sequences of at most MaxLen points
Floats == {NaN, INFINITY} \cup { Num(n) : n \in 0..MaxCoord }
Points == Floats \X Floats

\* max_value > min_value, what Axis::calculate_axis asks of both ranges of a Serie
AxisPrecondition(serie) ==
    /\ serie.max_x.k = "num" /\ serie.min_x.k = "num" /\ FGt(serie.max_x, serie.min_x)
    /\ serie.max_y.k = "num" /\ serie.min_y.k = "num" /\ FGt(serie.max_y, serie.min_y)

\* Spec: the sources rendered, sampled at x = 0, 1 or at x = 0, 1, 2 with
\* y in 0..2
Pt(a, b) == <<Num(a), Num(b)>>
RenderIters ==
    { <<Pt(0, a), Pt(1, b)>> : <<a, b>> \in (0..1) \X (0..1) }
    \cup { <<Pt(0, a), Pt(1, b), Pt(2, a)>> : <<a, b>> \in {<<0, 1>>, <<1, 0>>, <<0, 2>>} }

\* the Series create_bmp_vec is given: the ones Serie::new returns that meet
\* the precondition of Axis::calculate_axis
RenderSeries ==
    { s \in { SerieNew(iter, color) : iter \in RenderIters, color \in SerieColors } :
        s.status = "Ok" /\ AxisPrecondition(s) }

NoCall == [op |-> "none"]

-----------------------------------------------------------------------------
(* SerieSpec: Serie::new on every source of at most MaxLen points.          *)

SerieInit ==
    /\ serieArg = [iter |-> <<>>, color |-> "none"]
    /\ serieRes = [status |-> "none"]
    /\ chartArg = [width |-> 0, height |-> 0]
    /\ chart = NoChart
    /\ result = "none"
    /\ last = NoCall

NewSerie ==
    /\ serieRes.status = "none"
    /\ \E n \in 0..MaxLen : \E iter \in [1..n -> Points], color \in SerieColors :
        /\ serieArg' = [iter |-> iter, color |-> color]
        /\ serieRes' = SerieNew(iter, color)
        /\ UNCHANGED <<chartArg, chart, result, last>>

SerieNext == NewSerie

SerieSpec == SerieInit /\ [][SerieNext]_vars

-----------------------------------------------------------------------------
(* Spec: one Chart, from Chart::new through a first create_bmp_vec and a    *)
(* second one on the same Chart.                                            *)

Init == SerieInit

NewChart ==
    /\ result = "none"
    /\ \E width \in 0..MaxSize, height \in 0..MaxSize,
          background_color \in Colors, axis_color \in Colors :
        LET r == ChartNew(width, height, background_color, axis_color)
        IN /\ chartArg' = [width |-> width, height |-> height,
                           background_color |-> background_color,
                           axis_color |-> axis_color]
           /\ chart' = r.chart
           /\ result' = r.status
           /\ UNCHANGED <<serieArg, serieRes, last>>

\* the painted buffer indices of a set of display points
Indices(c, points) == { PixIndex(c, p) : p \in points }

\* create_bmp_vec(serie) on the Chart, nth being "first" or "second"
Render(nth) ==
    \E serie \in RenderSeries :
      \E cal \in Calibrations(chart, serie) :
      \E run \in { create_bmp_vec(chart, serie, cal[1], cal[2]) } :
        LET axis_x == cal[1]
            axis_y == cal[2]
        IN IF run.panics
           THEN /\ chart' = NoChart
                /\ result' = "Panic"
                /\ last' = NoCall
                /\ UNCHANGED <<serieArg, serieRes, chartArg>>
           ELSE /\ chart' = run.chart
                /\ result' = "Ok"
                /\ last' = [op |-> "create_bmp_vec", nth |-> nth, serie |-> serie,
                            axis_x |-> axis_x, axis_y |-> axis_y,
                            read_x |-> run.read_x, read_y |-> run.read_y,
                            function |-> run.function,
                            line |-> Indices(chart, run.func_points),
                            axes |-> Indices(chart, AxesPoints(chart, axis_x, axis_y)),
                            net_x |-> MinorNetX(chart, axis_x),
                            net_y |-> MinorNetY(chart, axis_y),
                            before |-> chart.pixs,
                            first |-> IF nth = "first" THEN NoCall
                                      ELSE [op |-> "create_bmp_vec", serie |-> last.serie,
                                            axis_x |-> last.axis_x, axis_y |-> last.axis_y,
                                            line |-> last.line, axes |-> last.axes]]
                /\ UNCHANGED <<serieArg, serieRes, chartArg>>

CreateBmpVec ==
    /\ chart # NoChart
    /\ last.op = "none"
    /\ Render("first")

CreateBmpVecAgain ==
    /\ chart # NoChart
    /\ last.op = "create_bmp_vec"
    /\ last.nth = "first"
    /\ Render("second")

Next == NewChart \/ CreateBmpVec \/ CreateBmpVecAgain

Spec == Init /\ [][Next]_vars

-----------------------------------------------------------------------------
(* MapSpec: serie_to_points on a Chart whose axes hold any calibration with *)
(* max_value > min_value, for data points in and out of the calibrated      *)
(* range.                                                                   *)

\* axis.min_value is one of 0..MaxAxisMin
MaxAxisMin == 1
\* axis.max_value is at most MaxAxisVal
MaxAxisVal == 4
\* the data coordinates are (-MapBelow)..MaxData
MapBelow == 1
MaxData == 9

MapAxes ==
    { [min_value |-> lo, max_value |-> hi, k_i |-> 1, c_i |-> [n |-> 1, d |-> 1],
       size |-> 0, horizontal |-> TRUE] :
         <<lo, hi>> \in { <<lo, hi>> \in (0..MaxAxisMin) \X (1..MaxAxisVal) : hi > lo } }

\* the Charts Chart::new returns, after draw_axes stored a calibration
MapCharts ==
    { [r.chart EXCEPT !.axis_x = Some(ax), !.axis_y = Some(rotate(ay))] :
        r \in { r \in { ChartNew(w, h, "#ffffff", "#000000") :
                          w \in 0..MaxSize, h \in 0..MaxSize } : r.status = "Ok" },
        ax \in MapAxes, ay \in MapAxes }

\* the Series mapped: any data point, and the point (0, 0)
MapSeries ==
    { s \in { SerieNew(<<Pt(a, b), Pt(0, 0)>>, "#0000ff") :
                a \in (-MapBelow)..MaxData, b \in (-MapBelow)..MaxData } :
        s.status = "Ok" }

MapInit ==
    /\ serieArg = [iter |-> <<>>, color |-> "none"]
    /\ serieRes = [status |-> "none"]
    /\ chartArg = [width |-> 0, height |-> 0]
    /\ chart \in MapCharts
    /\ result = "Ok"
    /\ last = NoCall

SerieToPoints ==
    /\ last.op = "none"
    /\ \E serie \in MapSeries :
         /\ last' = [op |-> "serie_to_points", serie |-> serie,
                     function |-> serie_to_points(chart, serie)]
         /\ UNCHANGED <<serieArg, serieRes, chartArg, chart, result>>

MapNext == SerieToPoints

MapSpec == MapInit /\ [][MapNext]_vars

-----------------------------------------------------------------------------
(* Claims about Serie::new, under SerieSpec.                                *)

Called == serieRes.status # "none"

\* C1: a source of fewer than 2 points (0 or 1) gets NotEnoughPoints, never
\* NonUniquePoints and never Ok
C1_NotEnoughPoints ==
    (Called /\ Len(serieArg.iter) < 2) => serieRes.status = "NotEnoughPoints"

C1_Witness ==
    Len(serieArg.iter) = 1 /\ serieRes.status = "NotEnoughPoints"

\* every point after the first equals the first, by the == of (f64, f64)
AllEqualFirst(iter) == \A i \in 2..Len(iter) : ~PointNe(iter[i], iter[1])

\* C2: NonUniquePoints is returned exactly for the sources of 2 or more points
\* in which every point after the first equals the first, whatever the length
C2_NonUniquePoints ==
    Called =>
        (serieRes.status = "NonUniquePoints"
            <=> (Len(serieArg.iter) >= 2 /\ AllEqualFirst(serieArg.iter)))

C2_Witness ==
    Len(serieArg.iter) = 3 /\ serieRes.status = "NonUniquePoints"

\* the stored bounds are the minimum and maximum of the coordinates of iter
BoundsExact(s, iter) ==
    /\ \A i \in 1..Len(iter) :
         /\ FLe(s.min_x, iter[i][1]) /\ FLe(iter[i][1], s.max_x)
         /\ FLe(s.min_y, iter[i][2]) /\ FLe(iter[i][2], s.max_y)
    /\ \E i \in 1..Len(iter) : iter[i][1] = s.min_x
    /\ \E i \in 1..Len(iter) : iter[i][1] = s.max_x
    /\ \E i \in 1..Len(iter) : iter[i][2] = s.min_y
    /\ \E i \in 1..Len(iter) : iter[i][2] = s.max_y

NoNaN(iter) ==
    \A i \in 1..Len(iter) : iter[i][1].k # "nan" /\ iter[i][2].k # "nan"

\* C3 as stated: every source of 2 or more points, not all equal, is accepted
\* with bounds that are exactly the minimum and maximum of its coordinates,
\* and the stored source is the one passed in
C3_AsStated ==
    (Called /\ Len(serieArg.iter) >= 2 /\ ~AllEqualFirst(serieArg.iter)) =>
        /\ serieRes.status = "Ok"
        /\ BoundsExact(serieRes, serieArg.iter)
        /\ serieRes.iter = serieArg.iter

\* C3 amended: the same, for the sources none of whose coordinates is NaN
C3_BoundsWithoutNaN ==
    (Called /\ Len(serieArg.iter) >= 2 /\ ~AllEqualFirst(serieArg.iter)) =>
        /\ serieRes.status = "Ok"
        /\ serieRes.iter = serieArg.iter
        /\ NoNaN(serieArg.iter) => BoundsExact(serieRes, serieArg.iter)

C3_Witness ==
    /\ serieRes.status = "Ok"
    /\ Len(serieArg.iter) = 3
    /\ NoNaN(serieArg.iter)
    /\ serieRes.min_x = Num(1) /\ serieRes.max_x = INFINITY
    /\ serieRes.min_y = Num(0) /\ serieRes.max_y = Num(1)

\* C5: every Serie that Serie::new accepts has max_x > min_x and max_y > min_y,
\* the precondition of the two calculate_axis calls of draw_axes
C5_NoDegenerateRange ==
    serieRes.status = "Ok" =>
        FGt(serieRes.max_x, serieRes.min_x) /\ FGt(serieRes.max_y, serieRes.min_y)

-----------------------------------------------------------------------------
(* Claims about Chart, under Spec.                                          *)

\* C4: Chart::new returns NotEnoughSpace exactly when width < 24 or
\* height < 24, 24 being 2*H_NUMBER + 2*W_NUMBER + W_ARROW + 2*W_BORDER, each
\* dimension on its own, and Ok for every other canvas
C4_NotEnoughSpace ==
    /\ 2 * H_NUMBER + 2 * W_NUMBER + W_ARROW + 2 * W_BORDER = 24
    /\ (result # "none" /\ last.op = "none") =>
         /\ result = "NotEnoughSpace" <=> (chartArg.width < 24 \/ chartArg.height < 24)
         /\ result = "Ok" <=> (chartArg.width >= 24 /\ chartArg.height >= 24)
         /\ result = "Ok" => (chart.width = chartArg.width /\ chart.height = chartArg.height)
         /\ result = "Ok" <=> chart # NoChart

C4_Witness ==
    result = "NotEnoughSpace" /\ chartArg.width >= 24 /\ chartArg.height = 23

\* the palette index of the rendered Serie's color
SerieIndex == IndexOf(chart.picture.colors, last.serie.color)

\* C8: after create_bmp_vec on a fresh Chart the buffer has width*height
\* entries; the pixels of the line hold the series index, the other pixels
\* of the axis lines and the grid hold the axis index, all the others still
\* hold the background index Chart::new filled the buffer with
C8_FirstRender ==
    (last.op = "create_bmp_vec" /\ last.nth = "first") =>
        /\ Len(chart.pixs) = chart.width * chart.height
        /\ chart.background_color = IndexOf(chart.picture.colors, chartArg.background_color)
        /\ chart.axis_color = IndexOf(chart.picture.colors, chartArg.axis_color)
        /\ \A i \in 1..Len(chart.pixs) :
             chart.pixs[i] = IF i \in last.line THEN SerieIndex
                             ELSE IF i \in last.axes THEN chart.axis_color
                             ELSE chart.background_color

C8_Witness ==
    /\ last.op = "create_bmp_vec" /\ last.nth = "first"
    /\ Len(last.serie.iter) = 3
    /\ SerieIndex # chart.axis_color /\ chart.axis_color # chart.background_color
    /\ \E i \in last.line \cap last.axes : chart.pixs[i] = SerieIndex
    /\ \E i \in last.axes \ last.line : chart.pixs[i] = chart.axis_color
    /\ \E i \in 1..Len(chart.pixs) : chart.pixs[i] = chart.background_color

\* the odd numbers of from..(to - 1)
OddRows(from, to) == { j \in from..(to - 1) : j % 2 = 1 }

\* C9: the grid is, for every tick i of axis_x, one point at column
\* LEFT_SHIFT + round(c_i * i) for each odd row j with
\* LEFT_SHIFT <= j < height - 4 and no other, and likewise for the ticks of
\* axis_y and the odd columns below width - 4, on every accepted canvas
C9_GridClearOfArrow ==
    last.op = "create_bmp_vec" =>
        /\ RIGHT_SHIFT = 4
        /\ last.net_x =
             { [x |-> LEFT_SHIFT + TickPixel(last.axis_x, i), y |-> j] :
                 i \in 0..(last.axis_x.k_i - 1),
                 j \in OddRows(LEFT_SHIFT, chart.height - 4) }
        /\ last.net_y =
             { [x |-> j, y |-> LEFT_SHIFT + TickPixel(last.axis_y, i)] :
                 i \in 0..(last.axis_y.k_i - 1),
                 j \in OddRows(LEFT_SHIFT, chart.width - 4) }

\* C10: create_bmp_vec never resets the buffer, so after a second call on
\* the same Chart every pixel the second call did not paint holds what the
\* first call left there; and serie_to_points reads the calibration
\* draw_axes stored for the Serie of this call, never an unset axis nor the
\* first call's
C10_Reuse ==
    last.op = "create_bmp_vec" =>
        /\ last.read_x = Some(last.axis_x) /\ last.read_y = Some(last.axis_y)
        /\ chart.axis_x = Some(last.axis_x) /\ chart.axis_y = Some(last.axis_y)
        /\ <<last.axis_x, last.axis_y>> \in Calibrations(chart, last.serie)
        /\ last.nth = "second" =>
             \A i \in 1..Len(chart.pixs) :
                i \notin (last.line \cup last.axes) => chart.pixs[i] = last.before[i]

C10_Witness ==
    /\ last.op = "create_bmp_vec" /\ last.nth = "second"
    /\ last.first.serie.iter # last.serie.iter
    /\ last.first.axis_x # last.axis_x /\ last.first.axis_y # last.axis_y
    /\ \E i \in last.first.line \ (last.line \cup last.axes) :
         /\ chart.pixs[i] = IndexOf(chart.picture.colors, last.first.serie.color)
         /\ chart.pixs[i] # chart.background_color
         /\ chart.pixs[i] # SerieIndex
    /\ \E i \in last.first.axes \ (last.line \cup last.axes) :
         chart.pixs[i] = chart.axis_color /\ chart.pixs[i] # chart.background_color

-----------------------------------------------------------------------------
(* Claims about serie_to_points, under MapSpec.                             *)

InRange(axis, v) == axis.min_value <= v.v /\ v.v <= axis.max_value

\* one coordinate of C6: v, a coordinate of a data point, is mapped to pixel
\* px on an axis of the given pixel extent; below(u) is the pixel of any
\* other coordinate u
MapsWell(axis, extent, v, px, below(_)) ==
    /\ v.v = axis.min_value => px = LEFT_SHIFT
    /\ v.v = axis.max_value => px \in {extent - RIGHT_SHIFT, extent - RIGHT_SHIFT - 1}
    /\ InRange(axis, v) =>
         /\ LEFT_SHIFT <= px /\ px <= extent - RIGHT_SHIFT
         /\ \A u \in (-MapBelow)..MaxData :
              (InRange(axis, Num(u)) /\ u <= v.v) => below(Num(u)) <= px

\* C6: a coordinate equal to the axis min_value maps to pixel LEFT_SHIFT, one
\* equal to max_value to width - RIGHT_SHIFT (height - RIGHT_SHIFT) or one
\* less, and the coordinates between them to the pixels between,
\* monotonically
C6_Mapping ==
    last.op = "serie_to_points" =>
        /\ LEFT_SHIFT = 10
        /\ \A i \in 1..Len(last.serie.iter) :
             LET p == PointFrom(last.serie.iter[i])
                 d == last.function[i]
                 ax == chart.axis_x.val
                 ay == chart.axis_y.val
                 xOf(u) == ToDisplayPoint(chart, ax, ay, <<u, p.y>>).x
                 yOf(u) == ToDisplayPoint(chart, ax, ay, <<p.x, u>>).y
             IN /\ MapsWell(ax, chart.width, p.x, d.x, xOf)
                /\ MapsWell(ay, chart.height, p.y, d.y, yOf)

C6_Witness ==
    /\ last.op = "serie_to_points"
    /\ chart.width # chart.height
    /\ last.serie.iter[1][1].v = chart.axis_x.val.max_value
    /\ last.serie.iter[1][2].v = chart.axis_y.val.min_value
    /\ chart.axis_y.val.min_value = 1
    /\ last.function[1] = [x |-> chart.width - RIGHT_SHIFT, y |-> LEFT_SHIFT]

=============================================================================
